---------------------------- MODULE Spec2Model ----------------------------
(***************************************************************************)
(* Model of ollama-cli.py: one run of main() over a models directory.      *)
(*                                                                         *)
(* Python strings that the code inspects character by character (file      *)
(* names, digests, manifest paths, the --columns value, the confirmation   *)
(* input) are sequences of code points.  Fixed messages written to the     *)
(* terminal are TLA+ strings.                                              *)
(***************************************************************************)
EXTENDS Integers, Sequences, FiniteSets, TLC

(***************************************************************************)
(* Bounds of the model.                                                    *)
(***************************************************************************)
MaxFiles == 2        \* entries in the blobs directory
MaxManifests == 2    \* entries under the manifest root

(***************************************************************************)
(* Program constants.                                                      *)
(***************************************************************************)
MinHexLen == 40
MaxHexLen == 128

(***************************************************************************)
(* String literals of the program, as code points.                         *)
(***************************************************************************)
S_sha256_dash  == <<115,104,97,50,53,54,45>>             \* "sha256-"
S_sha256       == <<115,104,97,50,53,54>>                \* "sha256"
S_sha256_colon == <<115,104,97,50,53,54,58>>             \* "sha256:"
S_library      == <<108,105,98,114,97,114,121,47>>       \* "library/"
S_hexdigits    == <<48,49,50,51,52,53,54,55,56,57,97,98,99,100,101,102>>
S_dot          == <<46>>                                 \* "."
S_slash        == <<47>>                                 \* "/"
S_comma        == <<44>>                                 \* ","
S_pipe         == <<124>>                                \* "|"
S_yes          == <<121,101,115>>                        \* "yes"
S_blob         == <<98,108,111,98>>                      \* "blob"
S_models       == <<109,111,100,101,108,115>>            \* "models"
S_size_bytes   == <<115,105,122,101,95,98,121,116,101,115>>  \* "size_bytes"
S_size         == <<115,105,122,101>>                    \* "size"
S_is_orphan    == <<105,115,95,111,114,112,104,97,110>>  \* "is_orphan"
S_default_columns ==                                     \* "blob,models,size,is_orphan"
    <<98,108,111,98,44,109,111,100,101,108,115,44,115,105,122,101,44,
      105,115,95,111,114,112,104,97,110>>

\* Python's None where the code returns Optional[str]
None == <<-1>>

(***************************************************************************)
(* str methods used by the program.                                        *)
(***************************************************************************)
Rep(c, n) == [i \in 1..n |-> c]

\* s.startswith(p)
startswith(s, p) == Len(s) >= Len(p) /\ SubSeq(s, 1, Len(p)) = p

\* s[n:]
DropFirst(s, n) == SubSeq(s, n + 1, Len(s))

\* s.lower()
lower(s) == [i \in 1..Len(s) |-> IF s[i] \in 65..90 THEN s[i] + 32 ELSE s[i]]

\* str.isspace for one character
IsSpace(c) == c \in {32, 9, 10, 11, 12, 13}

RECURSIVE lstrip(_)
lstrip(s) == IF s # <<>> /\ IsSpace(Head(s)) THEN lstrip(Tail(s)) ELSE s

RECURSIVE rstrip(_)
rstrip(s) ==
    IF s # <<>> /\ IsSpace(s[Len(s)]) THEN rstrip(SubSeq(s, 1, Len(s) - 1)) ELSE s

\* s.strip()
strip(s) == rstrip(lstrip(s))

\* s.find(c) for a one-character c: the first index (1-based), 0 if none
Find(s, c) ==
    IF \E i \in 1..Len(s) : s[i] = c[1]
    THEN CHOOSE i \in 1..Len(s) : s[i] = c[1] /\ \A j \in 1..(i - 1) : s[j] # c[1]
    ELSE 0

\* s.split(c, 1)[0]
SplitFirst(s, c) ==
    LET k == Find(s, c) IN IF k = 0 THEN s ELSE SubSeq(s, 1, k - 1)

\* s.split(c)
RECURSIVE split(_, _)
split(s, c) ==
    LET k == Find(s, c)
    IN  IF k = 0 THEN <<s>>
        ELSE <<SubSeq(s, 1, k - 1)>> \o split(DropFirst(s, k), c)

\* sep.join(parts)
RECURSIVE join(_, _)
join(sep, parts) ==
    IF parts = <<>> THEN <<>>
    ELSE IF Len(parts) = 1 THEN parts[1]
    ELSE parts[1] \o sep \o join(sep, Tail(parts))

\* a < b on Python strings: at the first position where they differ a has the
\* smaller code point, or a is a proper prefix of b
StrLess(a, b) ==
    \E k \in 1..Len(b) :
        /\ k <= Len(a) + 1
        /\ \A j \in 1..(k - 1) : a[j] = b[j]
        /\ k = Len(a) + 1 \/ a[k] < b[k]

\* insertion of x into the ascending sequence s
RECURSIVE InsertStr(_, _)
InsertStr(s, x) ==
    IF s = <<>> THEN <<x>>
    ELSE IF StrLess(x, Head(s)) THEN <<x>> \o s
    ELSE <<Head(s)>> \o InsertStr(Tail(s), x)

\* sorted(set_of_str)
RECURSIVE sorted(_)
sorted(S) ==
    IF S = {} THEN <<>>
    ELSE LET x == CHOOSE y \in S : TRUE IN InsertStr(sorted(S \ {x}), x)

Range(s) == {s[i] : i \in DOMAIN s}

(***************************************************************************)
(* Model name cleaning.                                                    *)
(***************************************************************************)
normalize_model_name(model_path) ==
    LET p == IF startswith(model_path, S_library)
             THEN DropFirst(model_path, Len(S_library))
             ELSE model_path
    IN  SplitFirst(p, S_slash)

(***************************************************************************)
(* Blob file names.                                                        *)
(***************************************************************************)
extract_blob_hash_relaxed(name) ==
    LET n1 == SplitFirst(lower(name), S_dot)
        n2 == IF startswith(n1, S_sha256) THEN DropFirst(n1, Len(S_sha256)) ELSE n1
    IN  IF Len(n2) < MinHexLen \/ Len(n2) > MaxHexLen THEN None
        ELSE IF \E i \in DOMAIN n2 : n2[i] \notin Range(S_hexdigits) THEN None
        ELSE n2

\* the hash list_all_blobs takes from one file name, None if the file is ignored
HashOfName(name) ==
    IF startswith(name, S_sha256_dash) /\ Len(name) > Len(S_sha256_dash)
    THEN DropFirst(name, Len(S_sha256_dash))
    ELSE LET h == extract_blob_hash_relaxed(name)
         IN  IF h # None /\ h # <<>> THEN h ELSE None


(***************************************************************************)
(* The file system the run starts from.  Directory entries are drawn from  *)
(* two fixed tables; a directory of the run is a set of indices into its   *)
(* table.                                                                  *)
(***************************************************************************)
HA == Rep(97, 40)     \* "aaaa...a", 40 hex digits
HB == Rep(98, 40)     \* "bbbb...b", 40 hex digits
HX == <<88,89,90>>    \* "XYZ"

\* entries that may be found in <models-root>/blobs
BlobEntry == <<
    [name |-> S_sha256_dash \o HA,            is_file |-> TRUE,  st_size |-> 1048576],
    [name |-> HA \o <<46,98,105,110>>,        is_file |-> TRUE,  st_size |-> 131072],  \* "aaaa...a.bin"
    [name |-> S_sha256_dash \o HX,            is_file |-> TRUE,  st_size |-> 7],
    [name |-> <<83,72,65,50,53,54>> \o Rep(66, 40), is_file |-> TRUE, st_size |-> 2],  \* "SHA256BBBB...B"
    [name |-> S_sha256_dash \o HB,            is_file |-> FALSE, st_size |-> 4096],    \* a directory
    [name |-> Rep(99, 39),                    is_file |-> TRUE,  st_size |-> 3],       \* 39 hex digits
    [name |-> Rep(100, 129),                  is_file |-> TRUE,  st_size |-> 4],       \* 129 hex digits
    [name |-> Rep(103, 40),                   is_file |-> TRUE,  st_size |-> 5] >>     \* "gggg...g", not hex

BlobIds == DOMAIN BlobEntry

\* JSON values as far as the scanner looks into them
DAbsent == [t |-> "absent", s |-> <<>>]
DNum    == [t |-> "num",    s |-> <<>>]
DStr(s) == [t |-> "str",    s |-> s]
LObj(d) == [t |-> "obj", digest |-> d]          \* a layer entry that is an object
LStr    == [t |-> "str", digest |-> DAbsent]    \* a layer entry that is a string
JAbsent == [t |-> "absent", digest |-> DAbsent, items |-> <<>>]
JNull   == [t |-> "null",   digest |-> DAbsent, items |-> <<>>]
JStr    == [t |-> "str",    digest |-> DAbsent, items |-> <<>>]
JObj(d) == [t |-> "obj",    digest |-> d,       items |-> <<>>]
JList(l) == [t |-> "list",  digest |-> DAbsent, items |-> l]
Json(top, config, layers) ==
    [valid |-> TRUE, top |-> top, config |-> config, layers |-> layers]
NotJson == [valid |-> FALSE, top |-> "none", config |-> JAbsent, layers |-> JAbsent]

\* entries that may be found under <models-root>/manifests/registry.ollama.ai
ManifestEntry == <<
    \* library/mB/latest
    [path |-> <<108,105,98,114,97,114,121,47,109,66,47,108,97,116,101,115,116>>, is_file |-> TRUE, readable |-> TRUE,
     json |-> Json("obj", JObj(DStr(S_sha256_colon \o HA)),
                   JList(<<LObj(DStr(S_sha256_colon \o HB)), LStr,
                           LObj(DStr(<<109,100,53,58>> \o HX))>>))],      \* "md5:XYZ"
    \* mA/7b
    [path |-> <<109,65,47,55,98>>, is_file |-> TRUE, readable |-> TRUE,
     json |-> Json("obj", JAbsent,
                   JList(<<LObj(DStr(S_sha256_colon \o HA)), LObj(DAbsent),
                           LObj(DStr(S_sha256_colon \o HA)), LObj(DNum)>>))],
    \* library/mB/8b
    [path |-> <<108,105,98,114,97,114,121,47,109,66,47,56,98>>, is_file |-> TRUE, readable |-> TRUE,
     json |-> Json("obj", JObj(DStr(S_sha256_colon \o HA)),
                   JList(<<LObj(DStr(S_sha256_colon \o HX))>>))],
    \* mC/x: config is a string, layers is an object
    [path |-> <<109,67,47,120>>, is_file |-> TRUE, readable |-> TRUE,
     json |-> Json("obj", JStr, JObj(DStr(S_sha256_colon \o HX)))],
    \* mC/n: config.digest is a number, no layers
    [path |-> <<109,67,47,110>>, is_file |-> TRUE, readable |-> TRUE,
     json |-> Json("obj", JObj(DNum), JAbsent)],
    \* README: not JSON
    [path |-> <<82,69,65,68,77,69>>, is_file |-> TRUE, readable |-> TRUE, json |-> NotJson],
    \* mC/locked: cannot be read
    [path |-> <<109,67,47,108,111,99,107,101,100>>, is_file |-> TRUE, readable |-> FALSE,
     json |-> Json("obj", JObj(DStr(S_sha256_colon \o HX)), JAbsent)],
    \* library: a directory
    [path |-> <<108,105,98,114,97,114,121>>, is_file |-> FALSE, readable |-> FALSE, json |-> NotJson],
    \* mC/list: a JSON list
    [path |-> <<109,67,47,108,105,115,116>>, is_file |-> TRUE, readable |-> TRUE,
     json |-> Json("list", JAbsent, JAbsent)],
    \* mC/null: "layers": null
    [path |-> <<109,67,47,110,117,108,108>>, is_file |-> TRUE, readable |-> TRUE,
     json |-> Json("obj", JObj(DStr(S_sha256_colon \o HA)), JNull)] >>

ManifestIds == DOMAIN ManifestEntry

(***************************************************************************)
(* Blob -> models mapping (from manifests).                                *)
(***************************************************************************)
\* blob_to_models.get(h, [])
Lookup(b2m, h) == IF h \in DOMAIN b2m THEN b2m[h] ELSE {}

\* add_digest without the prefix test: the hash is what follows the first colon
add_digest_any_prefix(b2m, model_name, digest) ==
    IF digest.t = "str" /\ Find(digest.s, <<58>>) > 0
    THEN LET blob_hash == DropFirst(digest.s, Find(digest.s, <<58>>))
         IN  [h \in DOMAIN b2m \cup {blob_hash} |->
                 IF h = blob_hash
                 THEN (IF h \in DOMAIN b2m THEN b2m[h] ELSE {}) \cup {model_name}
                 ELSE b2m[h]]
    ELSE b2m

add_digest(b2m, model_name, digest) ==
    IF digest.t = "str" /\ startswith(digest.s, S_sha256_colon)
    THEN LET blob_hash == DropFirst(digest.s, Len(S_sha256_colon))
         IN  [h \in DOMAIN b2m \cup {blob_hash} |->
                 IF h = blob_hash THEN Lookup(b2m, h) \cup {model_name} ELSE b2m[h]]
    ELSE b2m

\* the layers loop over the entries of a list
RECURSIVE AddLayers(_, _, _)
AddLayers(b2m, model_name, layers) ==
    IF layers = <<>> THEN b2m
    ELSE AddLayers(IF Head(layers).t = "obj"
                   THEN add_digest(b2m, model_name, Head(layers).digest)
                   ELSE b2m,
                   model_name, Tail(layers))

\* json.loads(mf.read_text()) raises: the file is skipped
LoadFails(mf) == ~mf.readable \/ ~mf.json.valid

\* the exception the loop body raises past the try block, "" if none:
\* data.get on a value that is no dict, or iterating a layers value that
\* cannot be iterated
BodyRaises(mf) ==
    IF ~mf.is_file \/ LoadFails(mf) THEN ""
    ELSE IF mf.json.top # "obj" THEN "AttributeError"
    ELSE IF mf.json.layers.t \in {"null", "num", "bool"} THEN "TypeError"
    ELSE ""

\* one iteration of the loop over manifest_root.rglob("*")
ScanManifest(b2m, mf) ==
    IF ~mf.is_file \/ LoadFails(mf) THEN b2m
    ELSE LET model_name == normalize_model_name(mf.path)
             cfg == mf.json.config
             b1 == IF cfg.t = "obj" THEN add_digest(b2m, model_name, cfg.digest) ELSE b2m
             lay == mf.json.layers
         IN  \* iterating a str yields characters, iterating a dict yields keys:
             \* neither is a dict entry
             IF lay.t = "list" THEN AddLayers(b1, model_name, lay.items) ELSE b1

RECURSIVE ScanAll(_, _)
ScanAll(b2m, ids) ==
    IF ids = {} THEN b2m
    ELSE LET i == CHOOSE j \in ids : TRUE
         IN  ScanAll(ScanManifest(b2m, ManifestEntry[i]), ids \ {i})

\* collect_blob_mappings when no iteration raises
collect_blob_mappings(root) ==
    IF ~root.exists THEN << >> ELSE ScanAll(<< >>, root.entries)

(***************************************************************************)
(* Blob enumeration.                                                       *)
(***************************************************************************)
list_all_blobs(root) ==
    IF ~root.exists THEN <<>>
    ELSE sorted({HashOfName(BlobEntry[i].name) :
                    i \in {j \in root.entries : BlobEntry[j].is_file}} \ {None})

(***************************************************************************)
(* Helpers.                                                                *)
(***************************************************************************)
\* the entries of the blobs directory with the given name
EntriesNamed(root, name) == {i \in root.entries : BlobEntry[i].name = name}

\* path.stat().st_size, 0 when stat fails
size_bytes(root, name) ==
    IF EntriesNamed(root, name) = {} THEN 0
    ELSE BlobEntry[CHOOSE i \in EntriesNamed(root, name) : TRUE].st_size

\* round(n / d) to the nearest integer, ties to even, as the 'f' format rounds
RoundHalfEven(n, d) ==
    LET q == n \div d
        r == n % d
    IN  IF 2 * r < d THEN q
        ELSE IF 2 * r > d THEN q + 1
        ELSE IF q % 2 = 0 THEN q ELSE q + 1

\* format_size: the number is kept in hundredths of the unit
format_size(b, unit) ==
    IF unit = "gb"
    THEN [hundredths |-> RoundHalfEven(b * 100, 1024 * 1024 * 1024), unit |-> "GB"]
    ELSE [hundredths |-> RoundHalfEven(b * 100, 1024 * 1024), unit |-> "MB"]


(***************************************************************************)
(* The command line.  argv is the set of store_true options given and the  *)
(* value of --columns.  --models-root, --output, --format, --no-color,     *)
(* --progress and --debug keep their defaults: the table or the CSV goes   *)
(* to standard output, sizes are shown in MB.                              *)
(***************************************************************************)
FlagNames == {"--as-csv", "--delete-orphans", "--force", "--only-orphans",
              "--sort-by-blob", "--sort-by-model", "--sort-by-size",
              "--sort-asc", "--sort-desc"}

ColumnChoices == {
    S_default_columns,
    <<98,108,111,98,44,98,111,103,117,115>>,      \* "blob,bogus"
    <<32,44,32>>,      \* " , "
    <<105,115,95,111,114,112,104,97,110,44,32,115,105,122,101,95,98,121,116,101,115>> }     \* "is_orphan, size_bytes"

\* every command line over the options above
ArgvSpace ==
    {[flags |-> F, columns |-> c] : F \in SUBSET FlagNames, c \in ColumnChoices}

\* a few command lines, one per way through main
ArgvFew ==
    {[flags |-> F, columns |-> S_default_columns] :
        F \in {{}, {"--delete-orphans"}, {"--delete-orphans", "--force"},
               {"--only-orphans", "--as-csv"}, {"--sort-by-model", "--sort-desc"},
               {"--sort-by-size"}}}

\* parser.parse_args()
parse_args(argv) ==
    [as_csv         |-> "--as-csv" \in argv.flags,
     delete_orphans |-> "--delete-orphans" \in argv.flags,
     force          |-> "--force" \in argv.flags,
     only_orphans   |-> "--only-orphans" \in argv.flags,
     sort_by_blob   |-> "--sort-by-blob" \in argv.flags,
     sort_by_model  |-> "--sort-by-model" \in argv.flags,
     sort_by_size   |-> "--sort-by-size" \in argv.flags,
     sort_asc       |-> "--sort-asc" \in argv.flags,
     sort_desc      |-> "--sort-desc" \in argv.flags,
     format         |-> "mb",
     columns        |-> argv.columns]

\* args before parse_args has run
NoArgs == parse_args([flags |-> {}, columns |-> S_default_columns])

all_cols == {S_blob, S_models, S_size_bytes, S_size, S_is_orphan}

\* [x for x in xs if p(x)] for p = "is not empty"
RECURSIVE NonEmpty(_)
NonEmpty(xs) ==
    IF xs = <<>> THEN <<>>
    ELSE (IF Head(xs) # <<>> THEN <<Head(xs)>> ELSE <<>>) \o NonEmpty(Tail(xs))

\* columns = [c.strip() for c in args.columns.split(",") if c.strip()]
parse_columns(s) ==
    LET parts == split(s, S_comma)
    IN  NonEmpty([i \in DOMAIN parts |-> strip(parts[i])])

BoolToInt(b) == IF b THEN 1 ELSE 0

\* ConfigError without the check of the two sort directions
ConfigError_no_direction(a) ==
    LET columns == parse_columns(a.columns)
    IN  IF columns = <<>> THEN "No columns specified in --columns"
        ELSE IF \E i \in DOMAIN columns : columns[i] \notin all_cols
        THEN "Unknown columns"
        ELSE IF BoolToInt(a.sort_by_blob) + BoolToInt(a.sort_by_model)
                  + BoolToInt(a.sort_by_size) > 1
        THEN "Only one --sort-by option allowed"
        ELSE ""

\* the message of the parser.error call the validation ends in, "" if none
ConfigError(a) ==
    LET columns == parse_columns(a.columns)
    IN  IF columns = <<>> THEN "No columns specified in --columns"
        ELSE IF \E i \in DOMAIN columns : columns[i] \notin all_cols
        THEN "Unknown columns"
        ELSE IF BoolToInt(a.sort_by_blob) + BoolToInt(a.sort_by_model)
                  + BoolToInt(a.sort_by_size) > 1
        THEN "Only one --sort-by option allowed"
        ELSE IF a.sort_asc /\ a.sort_desc
        THEN "Choose only one: --sort-asc or --sort-desc"
        ELSE ""

(***************************************************************************)
(* Rows.                                                                   *)
(***************************************************************************)
\* one iteration of the loop over blobs: the row of blob_hash
MakeRow(blob_hash, b2m, root, unit) ==
    LET models == sorted(Lookup(b2m, blob_hash))
        bsize  == size_bytes(root, S_sha256_dash \o blob_hash)
    IN  [blob       |-> S_sha256_dash \o blob_hash,
         models     |-> join(S_pipe, models),
         size_bytes |-> bsize,
         size       |-> format_size(bsize, unit),
         is_orphan  |-> IF Len(models) = 0 THEN "yes" ELSE "no"]

\* rows after the loop over blobs
RECURSIVE BuildRows(_, _, _, _)
BuildRows(blobs_, b2m, root, unit) ==
    IF blobs_ = <<>> THEN <<>>
    ELSE <<MakeRow(Head(blobs_), b2m, root, unit)>>
         \o BuildRows(Tail(blobs_), b2m, root, unit)

\* is_orphan = len(models) == 0
IsOrphanHash(blob_hash, b2m) == Len(sorted(Lookup(b2m, blob_hash))) = 0

\* BuildOrphans appending every blob file, orphan or not
BuildOrphans_all(blobs_, b2m) == [i \in 1..Len(blobs_) |-> S_sha256_dash \o blobs_[i]]

\* orphan_files after the loop over blobs: blobs_root / "sha256-<hash>", as names
RECURSIVE BuildOrphans(_, _)
BuildOrphans(blobs_, b2m) ==
    IF blobs_ = <<>> THEN <<>>
    ELSE (IF IsOrphanHash(Head(blobs_), b2m)
          THEN <<S_sha256_dash \o Head(blobs_)>> ELSE <<>>)
         \o BuildOrphans(Tail(blobs_), b2m)

\* rows = [r for r in rows if r["is_orphan"] == "yes"]
RECURSIVE OnlyOrphans(_)
OnlyOrphans(rs) ==
    IF rs = <<>> THEN <<>>
    ELSE (IF Head(rs).is_orphan = "yes" THEN <<Head(rs)>> ELSE <<>>)
         \o OnlyOrphans(Tail(rs))

\* key(a) < key(b) for the sort key in use
KeyLess(a, b, by) ==
    IF by = "blob" THEN StrLess(a.blob, b.blob)
    ELSE IF by = "size" THEN a.size_bytes < b.size_bytes
    ELSE \* (models == "", models, blob): False < True
         IF (a.models = <<>>) # (b.models = <<>>) THEN b.models = <<>>
         ELSE IF a.models # b.models THEN StrLess(a.models, b.models)
         ELSE StrLess(a.blob, b.blob)

\* x goes before e in the output of list.sort(key, reverse)
Before(x, e, by, reverse) ==
    IF reverse THEN KeyLess(e, x, by) ELSE KeyLess(x, e, by)

RECURSIVE InsertRow(_, _, _, _)
InsertRow(s, x, by, reverse) ==
    IF s = <<>> THEN <<x>>
    ELSE IF Before(x, Head(s), by, reverse) THEN <<x>> \o s
    ELSE <<Head(s)>> \o InsertRow(Tail(s), x, by, reverse)

\* list.sort(key, reverse): stable, equal keys keep their order in either direction
RECURSIVE SortBy(_, _, _)
SortBy(rs, by, reverse) ==
    IF rs = <<>> THEN <<>>
    ELSE InsertRow(SortBy(SubSeq(rs, 1, Len(rs) - 1), by, reverse),
                   rs[Len(rs)], by, reverse)

\* the sorting step of main
SortRows(rs, a) ==
    IF a.sort_by_blob THEN SortBy(rs, "blob", a.sort_desc)
    ELSE IF a.sort_by_model THEN SortBy(rs, "model", a.sort_desc)
    ELSE IF a.sort_by_size THEN SortBy(rs, "size", a.sort_desc)
    ELSE rs

\* the filter step of main
FilterRows(rs, a) == IF a.only_orphans THEN OnlyOrphans(rs) ELSE rs

(***************************************************************************)
(* Output.  A line of standard output is its kind and its cells; padding   *)
(* and colour do not change a cell's text and are left out.                *)
(***************************************************************************)
Line(kind, cells) == [kind |-> kind, cells |-> cells]
Text(s) == Line("text", <<s>>)

\* r[c]
Cell(r, c) ==
    IF c = S_blob THEN r.blob
    ELSE IF c = S_models THEN r.models
    ELSE IF c = S_size_bytes THEN r.size_bytes
    ELSE IF c = S_size THEN r.size
    ELSE r.is_orphan

Cells(r, columns_) == [j \in DOMAIN columns_ |-> Cell(r, columns_[j])]

\* print_table without the test for an empty row list
print_table_no_guard(rs, columns_) ==
    <<Line("header", columns_), Line("rule", <<>>)>>
    \o [i \in DOMAIN rs |-> Line("row", Cells(rs[i], columns_))]

print_table(rs, columns_) ==
    IF rs = <<>> THEN <<Text("No blobs found.")>>
    ELSE <<Line("header", columns_), Line("rule", <<>>)>>
         \o [i \in DOMAIN rs |-> Line("row", Cells(rs[i], columns_))]

write_csv(rs, columns_) ==
    <<Line("csv", columns_)>> \o [i \in DOMAIN rs |-> Line("csv", Cells(rs[i], columns_))]

\* the output step of main
Render(rs, columns_, a) ==
    IF a.as_csv THEN write_csv(rs, columns_) ELSE print_table(rs, columns_)

\* the lines "  blobs/<name>" listing the files to delete
ListOrphans(files) == [i \in DOMAIN files |-> Line("candidate", <<files[i]>>)]

\* what may be typed at the prompt
ConfirmInputs == {
    S_yes,
    <<32,89,69,83,32>>,     \* " YES "
    <<89,101,115,9>>,     \* "Yes\t"
    <<110,111>>,     \* "no"
    <<121>>,     \* "y"
    <<121,101,115,33>>,     \* "yes!"
    <<121,32,101,115>>,     \* "y es"
    <<>> }

\* Confirmed accepting any answer that begins with "y"
Confirmed_prefix(inp) == startswith(lower(strip(inp)), <<121>>)

\* confirm = input(...).strip().lower(); confirm == "yes"
Confirmed(inp) == lower(strip(inp)) = S_yes


(***************************************************************************)
(* The run of main().                                                      *)
(***************************************************************************)
VARIABLES
    argv,            \* the command line: [flags, columns]
    manifest_root,   \* [exists, entries]: <models-root>/manifests/registry.ollama.ai
    blobs_root,      \* [exists, entries]: <models-root>/blobs
    pc,              \* where main() is
    args,            \* the parsed command line
    columns,         \* the validated column list
    blob_to_models,  \* result of collect_blob_mappings
    blobs,           \* result of list_all_blobs
    rows,            \* the row list
    orphan_files,    \* names of the files to delete, under blobs_root
    idx,             \* position of the deletion loop in orphan_files
    stdout,          \* lines printed so far
    stderr,          \* the error message or exception the run ended in, "" if none
    exit_status,     \* the exit status once pc = "exit", -1 before
    reads,           \* the directories listed so far
    prompts,         \* number of input() calls so far
    typed,           \* the line input() returned, None before
    unlink_calls,    \* the names unlink was called on, in order
    blobs_at_start   \* blobs_root as the run found it

vars == <<argv, manifest_root, blobs_root, pc, args, columns, blob_to_models, blobs, rows,
          orphan_files, idx, stdout, stderr, exit_status, reads, prompts, typed,
          unlink_calls, blobs_at_start>>

\* the directories a run may start from: absent, or holding some entries
Roots(ids, n) ==
    {[exists |-> FALSE, entries |-> {}]}
    \cup {[exists |-> TRUE, entries |-> E] : E \in {X \in SUBSET ids : Cardinality(X) <= n}}

\* the entries every combination of options is run against
CoreManifestIds == {1, 2}
CoreBlobIds == {1, 3, 4}

\* A run starts from any directories with a few command lines, or from
\* directories over the core entries with any command line.
Init ==
    /\ \/ /\ argv \in ArgvFew
          /\ manifest_root \in Roots(ManifestIds, MaxManifests)
          /\ blobs_root \in Roots(BlobIds, MaxFiles)
       \/ /\ argv \in ArgvSpace
          /\ manifest_root \in Roots(CoreManifestIds, MaxManifests)
          /\ blobs_root \in Roots(CoreBlobIds, MaxFiles)
    /\ pc = "start"
    /\ args = NoArgs
    /\ columns = <<>>
    /\ blob_to_models = << >>
    /\ blobs = <<>>
    /\ rows = <<>>
    /\ orphan_files = <<>>
    /\ idx = 0
    /\ stdout = <<>>
    /\ stderr = ""
    /\ exit_status = -1
    /\ reads = {}
    /\ prompts = 0
    /\ typed = None
    /\ unlink_calls = <<>>
    /\ blobs_at_start = blobs_root

\* the process ends with the given status
Exit(status) == pc' = "exit" /\ exit_status' = status

\* args = parser.parse_args() and the validation of columns and sort options.
\* parser.error prints the message and exits with status 2.
ParseArgs ==
    /\ pc = "start"
    /\ LET a == parse_args(argv)
       IN  /\ args' = a
           /\ columns' = parse_columns(a.columns)
           /\ IF ConfigError(a) # ""
              THEN /\ Exit(2)
                   /\ stderr' = ConfigError(a)
              ELSE /\ pc' = "scan"
                   /\ UNCHANGED <<stderr, exit_status>>
    /\ UNCHANGED <<argv, manifest_root, blobs_root, blob_to_models, blobs, rows, orphan_files,
                   idx, stdout, reads, prompts, typed, unlink_calls, blobs_at_start>>

\* the manifest files whose loop iteration raises
RaisingManifests ==
    IF manifest_root.exists
    THEN {i \in manifest_root.entries : BodyRaises(ManifestEntry[i]) # ""}
    ELSE {}

\* blob_to_models = collect_blob_mappings(manifest_root).  rglob yields the files
\* in no particular order: the first raising file ends the run with a traceback.
Scan ==
    /\ pc = "scan"
    /\ reads' = reads \cup {"manifests"}
    /\ IF RaisingManifests # {}
       THEN /\ \E i \in RaisingManifests : stderr' = BodyRaises(ManifestEntry[i])
            /\ Exit(1)
            /\ UNCHANGED blob_to_models
       ELSE /\ blob_to_models' = collect_blob_mappings(manifest_root)
            /\ pc' = "enumerate"
            /\ UNCHANGED <<stderr, exit_status>>
    /\ UNCHANGED <<argv, manifest_root, blobs_root, args, columns, blobs, rows, orphan_files,
                   idx, stdout, prompts, typed, unlink_calls, blobs_at_start>>

\* blobs = list_all_blobs(blobs_root) and the loop that builds rows and orphan_files
Enumerate ==
    /\ pc = "enumerate"
    /\ reads' = reads \cup {"blobs"}
    /\ LET found == list_all_blobs(blobs_root)
       IN  /\ blobs' = found
           /\ rows' = BuildRows(found, blob_to_models, blobs_root, args.format)
           /\ orphan_files' = BuildOrphans(found, blob_to_models)
    /\ pc' = "present"
    /\ UNCHANGED <<argv, manifest_root, blobs_root, args, columns, blob_to_models, idx, stdout,
                   stderr, exit_status, prompts, typed, unlink_calls, blobs_at_start>>

\* filter, sort and output; main returns here without --delete-orphans
Present ==
    /\ pc = "present"
    /\ LET shown == SortRows(FilterRows(rows, args), args)
       IN  /\ rows' = shown
           /\ stdout' = stdout \o Render(shown, columns, args)
    /\ IF args.delete_orphans
       THEN pc' = "delete" /\ UNCHANGED exit_status
       ELSE Exit(0)
    /\ UNCHANGED <<argv, manifest_root, blobs_root, args, columns, blob_to_models, blobs,
                   orphan_files, idx, stderr, reads, prompts, typed, unlink_calls,
                   blobs_at_start>>

\* the head of the deletion flow, up to the confirmation
DeleteOrphans ==
    /\ pc = "delete"
    /\ IF orphan_files = <<>>
       THEN /\ stdout' = Append(stdout, Text("No orphan blobs found."))
            /\ Exit(0)
            /\ UNCHANGED idx
       ELSE /\ stdout' = stdout \o <<Text("Orphan blobs to delete:")>>
                                \o ListOrphans(orphan_files)
            /\ pc' = IF args.force THEN "unlink" ELSE "confirm"
            /\ idx' = 1
            /\ UNCHANGED exit_status
    /\ UNCHANGED <<argv, manifest_root, blobs_root, args, columns, blob_to_models, blobs, rows,
                   orphan_files, stderr, reads, prompts, typed, unlink_calls,
                   blobs_at_start>>

\* confirm = input("Delete? (yes/no) ").strip().lower()
Confirm ==
    /\ pc = "confirm"
    /\ prompts' = prompts + 1
    /\ \E inp \in ConfirmInputs :
          /\ typed' = inp
          /\ IF Confirmed(inp)
             THEN /\ stdout' = Append(stdout, Text("Delete? (yes/no) "))
                  /\ pc' = "unlink"
                  /\ UNCHANGED exit_status
             ELSE /\ stdout' = stdout \o <<Text("Delete? (yes/no) "), Text("Aborted.")>>
                  /\ Exit(0)
    /\ UNCHANGED <<argv, manifest_root, blobs_root, args, columns, blob_to_models, blobs, rows,
                   orphan_files, idx, stderr, reads, unlink_calls, blobs_at_start>>

\* the regular files unlink(name) would remove
Unlinkable(name) == {i \in EntriesNamed(blobs_root, name) : BlobEntry[i].is_file}

\* the exceptions f.unlink() may raise on the given name
UnlinkErrors(name) ==
    IF EntriesNamed(blobs_root, name) = {} THEN {"FileNotFoundError"}
    ELSE IF Unlinkable(name) = {} THEN {"IsADirectoryError"}
    ELSE {"PermissionError"}

\* NextIdx of a loop that a failed unlink ends
NextIdx_break(i, ok) == IF ok THEN i + 1 ELSE Len(orphan_files) + 1

\* the position of the deletion loop after the iteration at i; ok tells whether
\* unlink returned or raised
NextIdx(i, ok) == i + 1

\* one iteration of the deletion loop: f.unlink() removes the file, or raises and
\* the failure is printed with the exception
Unlink ==
    /\ pc = "unlink"
    /\ idx <= Len(orphan_files)
    /\ unlink_calls' = Append(unlink_calls, orphan_files[idx])
    /\ \/ /\ Unlinkable(orphan_files[idx]) # {}
          /\ blobs_root' = [blobs_root EXCEPT !.entries = @ \ Unlinkable(orphan_files[idx])]
          /\ stdout' = Append(stdout, Line("deleted", <<orphan_files[idx]>>))
          /\ idx' = NextIdx(idx, TRUE)
       \/ /\ \E e \in UnlinkErrors(orphan_files[idx]) :
                stdout' = Append(stdout, Line("failed", <<orphan_files[idx], e>>))
          /\ UNCHANGED blobs_root
          /\ idx' = NextIdx(idx, FALSE)
    /\ UNCHANGED <<argv, manifest_root, pc, args, columns, blob_to_models, blobs, rows,
                   orphan_files, stderr, exit_status, reads, prompts, typed,
                   blobs_at_start>>

\* print("Done.") after the deletion loop
Done ==
    /\ pc = "unlink"
    /\ idx > Len(orphan_files)
    /\ stdout' = Append(stdout, Text("Done."))
    /\ Exit(0)
    /\ UNCHANGED <<argv, manifest_root, blobs_root, args, columns, blob_to_models, blobs, rows,
                   orphan_files, idx, stderr, reads, prompts, typed, unlink_calls,
                   blobs_at_start>>

Next ==
    \/ ParseArgs
    \/ Scan
    \/ Enumerate
    \/ Present
    \/ DeleteOrphans
    \/ Confirm
    \/ Unlink
    \/ Done

Spec == Init /\ [][Next]_vars


(***************************************************************************)
(* Vocabulary of the properties, stated on the file system and the         *)
(* command line rather than on main's intermediate results.                *)
(***************************************************************************)
\* main has produced the rows (enumeration and reconciliation are over)
Reconciled == pc \notin {"start", "scan", "enumerate"} /\ stderr = ""

\* main has written the table or the CSV
Rendered == pc \notin {"start", "scan", "enumerate", "present"} /\ stderr = ""

\* the regular files of a blobs directory and the hash each yields
FilesOf(root) == {i \in root.entries : BlobEntry[i].is_file}
HashFiles(root) == {i \in FilesOf(root) : HashOfName(BlobEntry[i].name) # None}

\* the model name of a manifest path: its first segment, after a leading library/
ModelOfPath(path) ==
    LET segs == split(path, S_slash)
    IN  IF Len(segs) > 1 /\ segs[1] = <<108,105,98,114,97,114,121>> THEN segs[2]
        ELSE segs[1]

\* manifest file m is a JSON object whose config digest or one of whose layer
\* digests is the string d
HasDigest(m, d) ==
    /\ m.is_file /\ m.readable /\ m.json.valid /\ m.json.top = "obj"
    /\ \/ m.json.config.t = "obj" /\ m.json.config.digest = DStr(d)
       \/ /\ m.json.layers.t = "list"
          /\ \E k \in DOMAIN m.json.layers.items :
                /\ m.json.layers.items[k].t = "obj"
                /\ m.json.layers.items[k].digest = DStr(d)

\* the models whose manifests reference sha256:h
ReferringModels(h) ==
    {ModelOfPath(ManifestEntry[i].path) :
        i \in {j \in manifest_root.entries :
                  HasDigest(ManifestEntry[j], S_sha256_colon \o h)}}

\* the ascending, duplicate-free listing of a set of strings
Ascending(S) ==
    CHOOSE s \in [1..Cardinality(S) -> S] :
        /\ Range(s) = S
        /\ \A i, j \in DOMAIN s : i < j => StrLess(s[i], s[j])

\* the hash a row is about
RowHash(r) == DropFirst(r.blob, Len(S_sha256_dash))

\* the kinds and texts of the lines printed so far
TextLines == {i \in DOMAIN stdout : stdout[i].kind = "text"}
Printed(s) == {i \in TextLines : stdout[i].cells = <<s>>}
LinesOfKind(k) == {i \in DOMAIN stdout : stdout[i].kind = k}

(***************************************************************************)
(* C1.  After enumeration and reconciliation the rows are exactly the blob *)
(* files of the directory: every regular file that yields a hash has its   *)
(* own row, every row's blob identifier names a file present in the        *)
(* directory, and a hash that only manifests mention has no row.           *)
(***************************************************************************)
C1_RowsAreTheBlobFiles ==
    (pc = "present") =>
        /\ Len(rows) = Cardinality(HashFiles(blobs_root))
        /\ \A i \in HashFiles(blobs_root) :
              \E k \in DOMAIN rows : RowHash(rows[k]) = HashOfName(BlobEntry[i].name)
        /\ \A k \in DOMAIN rows :
              \E i \in FilesOf(blobs_root) : BlobEntry[i].name = rows[k].blob
        /\ \A k, l \in DOMAIN rows : rows[k].blob = rows[l].blob => k = l

(***************************************************************************)
(* C2.  Every row's model list is the ascending, duplicate-free list of    *)
(* the models whose manifests reference sha256:<hash> by their config      *)
(* digest or a layer digest, joined with "|", and the row is flagged       *)
(* orphan exactly when that list is empty.  A digest without the sha256:   *)
(* prefix is no reference.                                                 *)
(***************************************************************************)
C2_ModelsOfRow ==
    Reconciled =>
        \A k \in DOMAIN rows :
            /\ rows[k].models = join(S_pipe, Ascending(ReferringModels(RowHash(rows[k]))))
            /\ (rows[k].is_orphan = "yes") <=> (ReferringModels(RowHash(rows[k])) = {})

\* two manifests of different models reference the hash of a blob file, and a
\* third digest names another blob file's hash without the prefix
C2_Witness ==
    /\ Reconciled
    /\ \E k, l \in DOMAIN rows :
          /\ rows[k].models = <<109,65,124,109,66>>      \* "mA|mB"
          /\ rows[k].is_orphan = "no"
          /\ RowHash(rows[l]) = HX
          /\ rows[l].is_orphan = "yes"
          /\ 1 \in manifest_root.entries

(***************************************************************************)
(* C3.  With --delete-orphans and --force the run removes every orphan     *)
(* file that produced a row, whichever file name rule yielded its hash,    *)
(* and asks nothing.  The statement is read in the claim's favour: runs    *)
(* in which the operating system refused a removal are left aside.         *)
(***************************************************************************)
Refused == {i \in LinesOfKind("failed") : stdout[i].cells[2] = "PermissionError"}

C3_ForceRemovesEveryOrphan ==
    (pc = "exit" /\ stderr = "" /\ args.delete_orphans /\ args.force /\ Refused = {}) =>
        /\ prompts = 0
        /\ \A i \in HashFiles(blobs_at_start) :
              ReferringModels(HashOfName(BlobEntry[i].name)) = {}
                  => i \notin blobs_root.entries

(***************************************************************************)
(* C4.  With --delete-orphans, without --force and with orphans, the run   *)
(* goes on to delete only if the answer, trimmed and lowercased, is "yes". *)
(* After any other answer no unlink was attempted, the blobs directory is  *)
(* as it was, "Aborted." was printed and "Done." was not.                  *)
(***************************************************************************)
\* inp is "yes" in any letter case between two runs of white space
SaysYes(inp) ==
    \E i \in 0..Len(inp) :
        /\ i + 3 <= Len(inp)
        /\ \A k \in 1..i : IsSpace(inp[k])
        /\ \A k \in (i + 4)..Len(inp) : IsSpace(inp[k])
        /\ inp[i + 1] \in {121, 89}
        /\ inp[i + 2] \in {101, 69}
        /\ inp[i + 3] \in {115, 83}

\* the prompt has been answered
Answered ==
    /\ Rendered /\ pc \in {"unlink", "exit"}
    /\ args.delete_orphans /\ ~args.force /\ orphan_files # <<>>

C4_OnlyYesDeletes ==
    Answered =>
        /\ prompts = 1
        /\ (pc = "unlink" \/ unlink_calls # <<>> \/ blobs_root # blobs_at_start)
              => SaysYes(typed)
        /\ ~SaysYes(typed) =>
              /\ pc = "exit"
              /\ unlink_calls = <<>>
              /\ blobs_root = blobs_at_start
              /\ Printed("Aborted.") # {}
              /\ Printed("Done.") = {}

\* the answer "no" with an orphan on disk
C4_Witness ==
    /\ Answered
    /\ typed = <<110,111>>
    /\ Printed("Aborted.") = {Len(stdout)}
    /\ orphan_files # <<>>
    /\ blobs_root = blobs_at_start

(***************************************************************************)
(* C5.  No content of a file under the manifest root aborts the run: once  *)
(* scanning has begun the run ends with its output written and status 0.   *)
(***************************************************************************)
C5_ManifestsNeverAbort ==
    (pc = "exit" /\ "manifests" \in reads) =>
        /\ stderr = ""
        /\ exit_status = 0
        /\ stdout # <<>>

(***************************************************************************)
(* C6.  A configuration error (unknown or empty column selection, more     *)
(* than one sort key, both sort directions) ends the run with a non-zero   *)
(* status before any scanning: no directory was read, no row produced, no  *)
(* file deleted.                                                           *)
(***************************************************************************)
SelectedColumns == {strip(c) : c \in Range(split(argv.columns, S_comma))} \ {<<>>}

BadCommandLine ==
    \/ SelectedColumns = {}
    \/ \E c \in SelectedColumns :
          c \notin {S_blob, S_models, S_size_bytes, S_size, S_is_orphan}
    \/ Cardinality(argv.flags \cap {"--sort-by-blob", "--sort-by-model", "--sort-by-size"}) > 1
    \/ {"--sort-asc", "--sort-desc"} \subseteq argv.flags

NothingDone ==
    /\ reads = {}
    /\ rows = <<>>
    /\ stdout = <<>>
    /\ unlink_calls = <<>>
    /\ blobs_root = blobs_at_start

ConfigMessages ==
    {"No columns specified in --columns", "Unknown columns",
     "Only one --sort-by option allowed", "Choose only one: --sort-asc or --sort-desc"}

C6_ConfigErrorsBeforeScanning ==
    /\ (BadCommandLine /\ pc # "start") =>
          pc = "exit" /\ exit_status > 0 /\ stderr \in ConfigMessages /\ NothingDone
    /\ (pc = "exit" /\ stderr \in ConfigMessages) => exit_status > 0 /\ NothingDone

\* both sort directions requested, with manifests and blobs on disk
C6_Witness ==
    /\ pc = "exit"
    /\ stderr = "Choose only one: --sort-asc or --sort-desc"
    /\ exit_status = 2
    /\ manifest_root.entries # {}
    /\ blobs_root.entries # {}
    /\ NothingDone

(***************************************************************************)
(* C7.  Sorted by model list, the rows with an empty model string come     *)
(* last in either direction; the other rows are ordered by model string,   *)
(* then by blob identifier.                                                *)
(***************************************************************************)
\* (models, blob) of a comes before that of b
ModelKeyLess(a, b) ==
    IF a.models # b.models THEN StrLess(a.models, b.models) ELSE StrLess(a.blob, b.blob)

C7_EmptyModelsLast ==
    (Rendered /\ args.sort_by_model /\ ~args.sort_by_blob) =>
        \A i, j \in DOMAIN rows :
            i < j =>
                /\ rows[i].models = <<>> => rows[j].models = <<>>
                /\ (rows[i].models # <<>> /\ rows[j].models # <<>>) =>
                      IF args.sort_desc THEN ModelKeyLess(rows[j], rows[i])
                      ELSE ModelKeyLess(rows[i], rows[j])

(***************************************************************************)
(* C8.  Once deletion is confirmed (by --force or by the answer yes),      *)
(* unlink is attempted exactly once on every file of the orphan list, in   *)
(* list order; a failure is reported for its file and the loop goes on;    *)
(* "Done." is printed once, after all attempts.                            *)
(***************************************************************************)
Proceeding ==
    /\ Rendered /\ pc \in {"unlink", "exit"}
    /\ args.delete_orphans /\ orphan_files # <<>>
    /\ args.force \/ (prompts > 0 /\ SaysYes(typed))

\* the lines that report the outcome of an unlink, in print order
RECURSIVE Outcomes(_)
Outcomes(out) ==
    IF out = <<>> THEN <<>>
    ELSE (IF Head(out).kind \in {"deleted", "failed"} THEN <<Head(out)>> ELSE <<>>)
         \o Outcomes(Tail(out))

C8_EveryOrphanAttemptedOnce ==
    Proceeding =>
        /\ Len(unlink_calls) <= Len(orphan_files)
        /\ unlink_calls = SubSeq(orphan_files, 1, Len(unlink_calls))
        /\ Len(Outcomes(stdout)) = Len(unlink_calls)
        /\ \A k \in DOMAIN unlink_calls : Outcomes(stdout)[k].cells[1] = unlink_calls[k]
        /\ pc = "exit" =>
              /\ unlink_calls = orphan_files
              /\ Printed("Done.") = {Len(stdout)}
        /\ pc # "exit" =>
              /\ Printed("Done.") = {}
              /\ ENABLED (Unlink \/ Done)

\* two orphans: the first removal failed, the second succeeded, then "Done."
C8_Witness ==
    /\ Proceeding
    /\ pc = "exit"
    /\ Len(orphan_files) = 2
    /\ Len(Outcomes(stdout)) = 2
    /\ Outcomes(stdout)[1].kind = "failed"
    /\ Outcomes(stdout)[2].kind = "deleted"
    /\ Printed("Done.") = {Len(stdout)}

(***************************************************************************)
(* C9.  An empty row list is rendered as the message "No blobs found.",    *)
(* with no header line, in table mode and in CSV mode alike.               *)
(***************************************************************************)
C9_EmptyListIsAMessage ==
    (Rendered /\ rows = <<>>) =>
        /\ stdout[1] = Text("No blobs found.")
        /\ LinesOfKind("header") \cup LinesOfKind("csv") = {}

(***************************************************************************)
(* C9, amended.  An empty row list is rendered in table mode as the        *)
(* message "No blobs found." with no header line, and in CSV mode as the   *)
(* header row alone, without the message.                                  *)
(***************************************************************************)
C9_EmptyListByMode ==
    (Rendered /\ rows = <<>>) =>
        IF args.as_csv
        THEN /\ stdout[1] = Line("csv", columns)
             /\ LinesOfKind("csv") = {1}
             /\ Printed("No blobs found.") = {}
        ELSE /\ Printed("No blobs found.") = {1}
             /\ LinesOfKind("header") \cup LinesOfKind("rule") \cup LinesOfKind("row")
                    \cup LinesOfKind("csv") = {}

\* CSV mode, every row dropped by --only-orphans
C9_Witness ==
    /\ Rendered
    /\ rows = <<>>
    /\ blobs # <<>>
    /\ args.only_orphans
    /\ args.as_csv
    /\ LinesOfKind("csv") = {1}

(***************************************************************************)
(* C10.  Removal is attempted only on the paths of the orphan list built   *)
(* during reconciliation, which is fixed by the two directories alone: no  *)
(* file whose hash a manifest references is unlinked, whatever the filter, *)
(* sort and column options, and without --delete-orphans nothing is        *)
(* removed.                                                                *)
(***************************************************************************)
\* the paths of the hashes found in the blobs directory that no manifest references
OrphanPaths ==
    Ascending({S_sha256_dash \o HashOfName(BlobEntry[i].name) :
                  i \in {j \in HashFiles(blobs_at_start) :
                            ReferringModels(HashOfName(BlobEntry[j].name)) = {}}})

Removed == blobs_at_start.entries \ blobs_root.entries

C10_OnlyOrphansAreUnlinked ==
    /\ Reconciled => orphan_files = OrphanPaths
    /\ \A k \in DOMAIN unlink_calls : unlink_calls[k] \in Range(OrphanPaths)
    /\ blobs_root.entries \subseteq blobs_at_start.entries
    /\ \A i \in Removed : ReferringModels(HashOfName(BlobEntry[i].name)) = {}
    /\ "--delete-orphans" \notin argv.flags =>
          unlink_calls = <<>> /\ blobs_root = blobs_at_start

\* an orphan was removed and a referenced file is left, under filter, sort and
\* column options
C10_Witness ==
    /\ pc = "exit"
    /\ Removed # {}
    /\ \E i \in HashFiles(blobs_root) : ReferringModels(HashOfName(BlobEntry[i].name)) # {}
    /\ {"--only-orphans", "--sort-by-size", "--sort-desc"} \subseteq argv.flags
    /\ argv.columns # S_default_columns

=============================================================================
